---- MODULE Spec2Model ----
(***************************************************************************)
(* FakeWindow (src/assets/window.js): the cursor-zone classifier           *)
(* getWindowCursorState, the mouse listeners the constructor registers,    *)
(* close(), the constructor itself and FakeWindow.Create.                  *)
(*                                                                         *)
(* JavaScript values are written as strings: "null", "undefined", "true",  *)
(* "false".  A resize-cursor class `${resizeCursorClass}-${tag}` is        *)
(* written as its tag ("nw", "n", ...), the prefix being the same for all. *)
(***************************************************************************)
EXTENDS Integers, Sequences, FiniteSets

VARIABLES
    windowRect,          \* this.window.getBoundingClientRect()
    titleRect,           \* this.titlebar.getBoundingClientRect()
    _config,             \* this._config
    window,              \* this.window: "windowElem" or "null"
    attached,            \* the window element is a child of its parent
    _state,              \* the _state property of each object a handler may get as `this`
    _cursorHoverState,   \* this._cursorHoverState
    classList,           \* resize-cursor classes present on the window element
    docListeners,        \* listeners registered on document, as <<event, function>>
    winListeners,        \* events the window element has a listener for
    elems,               \* the container and the sub-elements it holds
    frozen,              \* the configuration object is frozen
    op,                  \* the operation or event handled last
    cursor,              \* its point argument
    target,              \* its event target
    flags,               \* its checkEdgesX, checkEdgesY, checkCorners arguments
    result,              \* its return value
    thrown               \* the error it raised

vars == <<windowRect, titleRect, _config, window, attached, _state,
          _cursorHoverState, classList, docListeners, winListeners, elems, frozen,
          op, cursor, target, flags, result, thrown>>

\* The container's content, its listeners and the mutability of the
\* configuration object are fixed once construction has ended.
dom == <<winListeners, elems, frozen>>

(***************************************************************************)
(* Bounds of the model.                                                    *)
(***************************************************************************)
MaxOrigin == 1       \* window rectangles start at x, y in 0..MaxOrigin
MaxSize == 5         \* their width and height are in 0..MaxSize
EventSize == 4       \* width and height of the window the mouse events act on
MaxCorner == 2       \* resizePointCornerSize in 1..MaxCorner
MaxEdge == 2         \* resizePointEdgeSize in 1..MaxEdge
TitleHeight == 1     \* height of the title bar, which spans the window's top

Max(a, b) == IF a >= b THEN a ELSE b

\* How far outside the window rectangle cursor points are taken.
Reach == Max(MaxCorner, MaxEdge) + 1

(***************************************************************************)
(* FakeWindow.util                                                         *)
(***************************************************************************)
includes(rect, point) ==
    /\ point.x >= rect.x
    /\ point.x <= rect.x + rect.width
    /\ point.y >= rect.y
    /\ point.y <= rect.y + rect.height

(***************************************************************************)
(* getWindowCursorState: the zone rectangles                               *)
(***************************************************************************)
CornerOrder == <<"nw", "ne", "se", "sw">>
EdgeOrder == <<"w", "n", "e", "s">>
CornerTags == {"nw", "ne", "se", "sw"}
EdgeTags == {"w", "n", "e", "s"}

\* corners with the se and sw squares on each other's side.
cornersSwapped(k) ==
    LET c == _config.resizePointCornerSize
        r == windowRect
    IN  CASE k = "nw" -> [x |-> r.x, y |-> r.y, width |-> c, height |-> c]
          [] k = "ne" -> [x |-> r.x + r.width - c, y |-> r.y,
                          width |-> c, height |-> c]
          [] k = "se" -> [x |-> r.x, y |-> r.y + r.height - c,
                          width |-> c, height |-> c]
          [] k = "sw" -> [x |-> r.x + r.width - c, y |-> r.y + r.height - c,
                          width |-> c, height |-> c]

corners(k) ==
    LET c == _config.resizePointCornerSize
        r == windowRect
    IN  CASE k = "nw" -> [x |-> r.x, y |-> r.y, width |-> c, height |-> c]
          [] k = "ne" -> [x |-> r.x + r.width - c, y |-> r.y,
                          width |-> c, height |-> c]
          [] k = "se" -> [x |-> r.x + r.width - c, y |-> r.y + r.height - c,
                          width |-> c, height |-> c]
          [] k = "sw" -> [x |-> r.x, y |-> r.y + r.height - c,
                          width |-> c, height |-> c]

\* edges with the e and s strips starting at the far side of the rectangle.
edgesOutside(k) ==
    LET c == _config.resizePointCornerSize
        e == _config.resizePointEdgeSize
        r == windowRect
    IN  CASE k = "w" -> [x |-> r.x, y |-> r.y + c,
                         width |-> e, height |-> r.height - (c * 2)]
          [] k = "n" -> [x |-> r.x + c, y |-> r.y,
                         width |-> r.width - (c * 2), height |-> e]
          [] k = "e" -> [x |-> r.x + r.width, y |-> r.y + c,
                         width |-> e, height |-> r.height - (c * 2)]
          [] k = "s" -> [x |-> r.x + c, y |-> r.y + r.height,
                         width |-> r.width - (c * 2), height |-> e]

edges(k) ==
    LET c == _config.resizePointCornerSize
        e == _config.resizePointEdgeSize
        r == windowRect
    IN  CASE k = "w" -> [x |-> r.x, y |-> r.y + c,
                         width |-> e, height |-> r.height - (c * 2)]
          [] k = "n" -> [x |-> r.x + c, y |-> r.y,
                         width |-> r.width - (c * 2), height |-> e]
          [] k = "e" -> [x |-> r.x + r.width - e, y |-> r.y + c,
                         width |-> e, height |-> r.height - (c * 2)]
          [] k = "s" -> [x |-> r.x + c, y |-> r.y + r.height - e,
                         width |-> r.width - (c * 2), height |-> e]

\* The entry of `edges` for k is null unless its axis is checked.
edgeChecked(k, checkEdgesX, checkEdgesY) ==
    IF k \in {"w", "e"} THEN checkEdgesX ELSE checkEdgesY

\* for (...) { if (includes(rect, cursor)) { result.corner = k; break; } }
cornerLoop(p, checkCorners) ==
    LET hit == {i \in 1..Len(CornerOrder) : includes(corners(CornerOrder[i]), p)}
    IN  IF checkCorners /\ hit # {}
        THEN CornerOrder[CHOOSE i \in hit : \A j \in hit : i <= j]
        ELSE "null"

\* for (...) { if (!edge) continue; if (includes(edge, cursor)) { result.edge = k; break; } }
edgeLoop(p, checkEdgesX, checkEdgesY) ==
    LET hit == {i \in 1..Len(EdgeOrder) :
                    /\ edgeChecked(EdgeOrder[i], checkEdgesX, checkEdgesY)
                    /\ includes(edges(EdgeOrder[i]), p)}
    IN  IF (checkEdgesX \/ checkEdgesY) /\ hit # {}
        THEN EdgeOrder[CHOOSE i \in hit : \A j \in hit : i <= j]
        ELSE "null"

\* cursorState with inDragZone left false once a corner or an edge is hit.
cursorStateDragLast(p, checkEdgesX, checkEdgesY, checkCorners) ==
    [corner |-> cornerLoop(p, checkCorners),
     edge |-> edgeLoop(p, checkEdgesX, checkEdgesY),
     inDragZone |-> /\ cornerLoop(p, checkCorners) = "null"
                    /\ edgeLoop(p, checkEdgesX, checkEdgesY) = "null"
                    /\ includes(titleRect, p)]

\* The value getWindowCursorState returns on an open instance.
cursorState(p, checkEdgesX, checkEdgesY, checkCorners) ==
    [corner |-> cornerLoop(p, checkCorners),
     edge |-> edgeLoop(p, checkEdgesX, checkEdgesY),
     inDragZone |-> includes(titleRect, p)]

NoResult == [corner |-> "none", edge |-> "none", inDragZone |-> FALSE]
NoPoint == [x |-> 0, y |-> 0]
NoFlags == [checkEdgesX |-> FALSE, checkEdgesY |-> FALSE, checkCorners |-> FALSE]

(***************************************************************************)
(* Inputs                                                                  *)
(***************************************************************************)
Undefined == <<"undefined">>
AxisSpecs == {Undefined, <<>>, <<"x">>, <<"y">>, <<"x", "y">>}

\* Points in and around the window rectangle, far enough out to pass every
\* zone rectangle by a pixel.
NearPoints ==
    [x : (windowRect.x - Reach)..(windowRect.x + Max(windowRect.width + 1, Reach)),
     y : (windowRect.y - Reach)..(windowRect.y + Max(windowRect.height + 1, Reach))]

\* Points a mouse event dispatched inside the window element can carry.
WindowPoints ==
    [x : windowRect.x..(windowRect.x + windowRect.width),
     y : windowRect.y..(windowRect.y + windowRect.height)]

Geometry(origins, sizes) ==
    /\ windowRect \in [x : origins, y : origins, width : sizes, height : sizes]
    /\ titleRect = [x |-> windowRect.x, y |-> windowRect.y,
                    width |-> windowRect.width, height |-> TitleHeight]

\* The container and the sub-elements the constructor looks up in it.
RequiredElems == {"windowElem", "titlebar", "titlebarClose", "content"}
OptionalElems == {"titlebarText", "titlebarMinimize", "titlebarMaximize"}
AllElems == RequiredElems \cup OptionalElems

\* The events the constructor gives the window element a listener for.
WindowEvents == {"mousemove", "mousedown", "mouseup"}

\* The fields a successful construction leaves behind.
Constructed ==
    /\ window = "windowElem"
    /\ attached = TRUE
    /\ elems = AllElems
    /\ winListeners = WindowEvents
    /\ frozen = FALSE
    /\ _state = [o \in {"instance", "windowElem", "document"} |->
                    IF o = "instance" THEN "null" ELSE "undefined"]
    /\ _cursorHoverState = "null"
    /\ classList = {}
    /\ docListeners = {<<"mouseup", "_onMouseUp">>}
    /\ op = "constructor"
    /\ target = "none"
    /\ result = NoResult
    /\ thrown = "none"

(***************************************************************************)
(* getWindowCursorState(cursor, checkEdgesX, checkEdgesY, checkCorners)     *)
(***************************************************************************)
getWindowCursorState(p, checkEdgesX, checkEdgesY, checkCorners) ==
    /\ op' = "getWindowCursorState"
    /\ cursor' = p
    /\ target' = "none"
    /\ flags' = [checkEdgesX |-> checkEdgesX, checkEdgesY |-> checkEdgesY,
                 checkCorners |-> checkCorners]
    /\ IF window = "null"
       THEN /\ thrown' = "closed"
            /\ result' = NoResult
       ELSE /\ thrown' = "none"
            /\ result' = cursorState(p, checkEdgesX, checkEdgesY, checkCorners)
    /\ UNCHANGED <<windowRect, titleRect, _config, window, attached, _state,
                   _cursorHoverState, classList, docListeners, dom>>

(***************************************************************************)
(* The classifier on its own: Init draws the rectangle, the sizes and the  *)
(* arguments of one call (any point near the rectangle, any flags), and    *)
(* Classify makes that call.                                               *)
(***************************************************************************)
CallArgs ==
    /\ cursor \in NearPoints
    /\ flags \in [checkEdgesX : BOOLEAN, checkEdgesY : BOOLEAN, checkCorners : BOOLEAN]

InitClassify ==
    /\ Geometry(0..MaxOrigin, 0..MaxSize)
    /\ _config \in [resize : {<<"x", "y">>}, drag : {<<"x", "y">>},
                    resizePointCornerSize : 1..MaxCorner,
                    resizePointEdgeSize : 1..MaxEdge]
    /\ Constructed
    /\ CallArgs

Classify ==
    /\ op = "constructor"
    /\ getWindowCursorState(cursor, flags.checkEdgesX, flags.checkEdgesY,
                            flags.checkCorners)

NextClassify == Classify

SpecClassify == InitClassify /\ [][NextClassify]_vars

(***************************************************************************)
(* JavaScript semantics the listeners rely on                              *)
(***************************************************************************)
\* !!v
truthy(v) == v \notin {"null", "undefined", "false"}

\* str?.includes(ch)
optIncludes(str, ch) ==
    IF str = Undefined THEN "undefined"
    ELSE IF \E i \in 1..Len(str) : str[i] = ch THEN "true" ELSE "false"

\* a && b
jsAnd(a, b) == IF truthy(a) THEN b ELSE a

\* A parameter declared `= true`: an undefined argument takes the default,
\* and the body reads the parameter as !!param.
defaultTrue(arg) == IF arg = "undefined" THEN TRUE ELSE truthy(arg)

(***************************************************************************)
(* The mousemove listener of the window element                            *)
(***************************************************************************)
LimitButtons == {"titlebarMinimize", "titlebarMaximize", "titlebarClose"}

\* Targets a mouse event at point p inside the window element can have; the
\* limit buttons lie in the title bar.
TargetsAt(p) ==
    {"windowElem"} \cup (IF includes(titleRect, p) THEN LimitButtons ELSE {})

\* this.window.classList.contains(targetClass)
containsNever(targetClass) == FALSE

contains(targetClass) == targetClass \in classList

\* The class list after targetClass is added and the class of the recorded
\* hover state, if there is one, is removed.
swappedKeepsOld(targetClass) == classList \cup {targetClass}

swapped(targetClass) ==
    (classList \cup {targetClass})
        \ (IF _cursorHoverState # "null" THEN {_cursorHoverState} ELSE {})

mousemove(p, t) ==
    LET resizeX == optIncludes(_config.resize, "x")
        resizeY == optIncludes(_config.resize, "y")
        resizeBoth == jsAnd(resizeX, resizeY)
        cx == defaultTrue(resizeX)
        cy == defaultTrue(resizeY)
        cc == defaultTrue(resizeBoth)
        cs == cursorState(p, cx, cy, cc)
        cursorStateClassPostfix == IF cs.edge # "null" THEN cs.edge ELSE cs.corner
        targetClass == cursorStateClassPostfix
    IN  /\ op' = "mousemove"
        /\ cursor' = p
        /\ target' = t
        /\ result' = NoResult
        /\ UNCHANGED <<windowRect, titleRect, _config, window, attached, _state,
                       docListeners, dom>>
        /\ IF t \in LimitButtons
           THEN /\ flags' = NoFlags
                /\ thrown' = "none"
                /\ UNCHANGED <<_cursorHoverState, classList>>
           ELSE /\ flags' = [checkEdgesX |-> cx, checkEdgesY |-> cy, checkCorners |-> cc]
                /\ IF window = "null"
                   THEN /\ thrown' = "closed"
                        /\ UNCHANGED <<_cursorHoverState, classList>>
                   ELSE /\ thrown' = "none"
                        /\ IF cursorStateClassPostfix # "null"
                           THEN IF ~contains(targetClass)
                                THEN /\ classList' = swapped(targetClass)
                                     /\ _cursorHoverState' = targetClass
                                ELSE UNCHANGED <<_cursorHoverState, classList>>
                           ELSE IF _cursorHoverState # "null"
                                THEN /\ classList' = classList \ {_cursorHoverState}
                                     /\ _cursorHoverState' = "null"
                                ELSE UNCHANGED <<_cursorHoverState, classList>>

(***************************************************************************)
(* The mousedown listener of the window element: its body is empty         *)
(***************************************************************************)
mousedown(p, t) ==
    /\ op' = "mousedown"
    /\ cursor' = p
    /\ target' = t
    /\ flags' = NoFlags
    /\ result' = NoResult
    /\ thrown' = "none"
    /\ UNCHANGED <<windowRect, titleRect, _config, window, attached, _state,
                   _cursorHoverState, classList, docListeners, dom>>

(***************************************************************************)
(* The pointer leaves the window element: the constructor registers no     *)
(* listener for it, neither on the element nor on the document             *)
(***************************************************************************)
mouseleave ==
    /\ op' = "mouseleave"
    /\ cursor' = NoPoint
    /\ target' = "document"
    /\ flags' = NoFlags
    /\ result' = NoResult
    /\ thrown' = "none"
    /\ UNCHANGED <<windowRect, titleRect, _config, window, attached, _state,
                   _cursorHoverState, classList, docListeners, dom>>

(***************************************************************************)
(* _onMouseUp, registered as a plain function on the window element and on *)
(* document: the listener runs with `this` bound to the object it was      *)
(* registered on.                                                          *)
(***************************************************************************)
_onMouseUp(st, this) ==
    IF truthy(st[this]) THEN [st EXCEPT ![this] = "null"] ELSE st

\* A mouseup inside the window element (t a target in it) runs the element's
\* listener and, bubbling through the parent, document's; a mouseup elsewhere
\* (t = "document") runs document's listener only.
mouseup(t) ==
    LET onWindow == IF t # "document" THEN _onMouseUp(_state, "windowElem") ELSE _state
        bubbles == t = "document" \/ attached
        onDocument == IF bubbles /\ <<"mouseup", "_onMouseUp">> \in docListeners
                      THEN _onMouseUp(onWindow, "document")
                      ELSE onWindow
    IN  /\ op' = "mouseup"
        /\ cursor' = NoPoint
        /\ target' = t
        /\ flags' = NoFlags
        /\ result' = NoResult
        /\ thrown' = "none"
        /\ _state' = onDocument
        /\ UNCHANGED <<windowRect, titleRect, _config, window, attached,
                       _cursorHoverState, classList, docListeners, dom>>

(***************************************************************************)
(* A click on the close button: the constructor registers no click         *)
(* listener, on the button or on the window element.                       *)
(***************************************************************************)
click(t) ==
    /\ op' = "click"
    /\ cursor' = NoPoint
    /\ target' = t
    /\ flags' = NoFlags
    /\ result' = NoResult
    /\ thrown' = "none"
    /\ UNCHANGED <<windowRect, titleRect, _config, window, attached, _state,
                   _cursorHoverState, classList, docListeners, dom>>

(***************************************************************************)
(* close(): after this.window = null, the argument `_onMouseUp` of         *)
(* document.removeEventListener is an identifier no scope declares, so its *)
(* evaluation raises a ReferenceError before removeEventListener is called.*)
(***************************************************************************)
closeKeepsWindow ==
    /\ op' = "close"
    /\ cursor' = NoPoint
    /\ target' = "none"
    /\ flags' = NoFlags
    /\ result' = NoResult
    /\ IF window = "null"
       THEN /\ thrown' = "closed"
            /\ UNCHANGED <<window, attached>>
       ELSE /\ attached' = FALSE
            /\ UNCHANGED window
            /\ thrown' = "ReferenceError"
    /\ UNCHANGED <<windowRect, titleRect, _config, _state,
                   _cursorHoverState, classList, docListeners, dom>>

close ==
    /\ op' = "close"
    /\ cursor' = NoPoint
    /\ target' = "none"
    /\ flags' = NoFlags
    /\ result' = NoResult
    /\ IF window = "null"
       THEN /\ thrown' = "closed"
            /\ UNCHANGED <<window, attached>>
       ELSE /\ attached' = FALSE
            /\ window' = "null"
            /\ thrown' = "ReferenceError"
    /\ UNCHANGED <<windowRect, titleRect, _config, _state,
                   _cursorHoverState, classList, docListeners, dom>>

(***************************************************************************)
(* The instance under mouse events and calls                               *)
(***************************************************************************)
Init ==
    /\ Geometry({MaxOrigin}, {EventSize})
    /\ _config \in [resize : AxisSpecs, drag : {Undefined, <<"x", "y">>},
                    resizePointCornerSize : {1},
                    resizePointEdgeSize : {1}]
    /\ Constructed
    /\ cursor = NoPoint
    /\ flags = NoFlags

MouseMove == \E p \in WindowPoints : \E t \in TargetsAt(p) : mousemove(p, t)

MouseDown == \E p \in WindowPoints : \E t \in TargetsAt(p) : mousedown(p, t)

MouseUp == \E t \in {"windowElem", "document"} : mouseup(t)

ClickClose == click("titlebarClose")

Close == close

GetWindowCursorState == \E p \in WindowPoints : getWindowCursorState(p, TRUE, TRUE, TRUE)

MouseLeave == mouseleave

Next ==
    \/ MouseMove
    \/ MouseDown
    \/ MouseUp
    \/ ClickClose
    \/ Close
    \/ GetWindowCursorState
    \/ MouseLeave

Spec == Init /\ [][Next]_vars

(***************************************************************************)
(* new FakeWindow(windowElem, config)                                      *)
(*                                                                         *)
(* A configuration object is a record; a property that is unset is a field *)
(* the record does not have.  resize and drag are always fields, with the  *)
(* value Undefined when unset.  The constructor keeps the object it is     *)
(* given (this._config = config) and writes to it in place.                *)
(***************************************************************************)
Has(cfg, f) == f \in DOMAIN cfg

Omit(cfg, fs) == [k \in DOMAIN cfg \ fs |-> cfg[k]]

Put(cfg, f, v) == [k \in DOMAIN cfg \cup {f} |-> IF k = f THEN v ELSE cfg[k]]

ConfigDefaults ==
    [windowClass |-> "blurred window",
     drag |-> <<"x", "y">>,
     draggingThreshold |-> 10,
     resize |-> <<"x", "y">>,
     resizeCursorClass |-> "cursor-resize",
     resizePointEdgeSize |-> 8,
     resizePointCornerSize |-> 12,
     resizeMinWidth |-> 100,
     resizeMinHeight |-> 50]

\* String.prototype.toLowerCase, on the letters the bounds allow.
toLowerCaseIdentity(str) == str

toLowerCase(str) ==
    [i \in 1..Len(str) |->
        CASE str[i] = "X" -> "x"
          [] str[i] = "Y" -> "y"
          [] OTHER -> str[i]]

\* str?.toLowerCase()
optLowerCase(str) == IF str = Undefined THEN Undefined ELSE toLowerCase(str)

\* The characters ch for which /[xy]/i.test(ch) holds.
isXY == {"x", "y", "X", "Y"}

\* FakeWindow.util.all(arrayLike, pred), pred given as the set of the values
\* it holds for.
all(arrayLike, pred) == \A i \in 1..Len(arrayLike) : arrayLike[i] \in pred

\* !str, for a string or undefined
falsyString(str) == str = Undefined \/ str = <<>>

\* cfg[f] > 0, false when the property is unset
positive(cfg, f) == Has(cfg, f) /\ cfg[f] > 0

\* The argument of the assertion on the resize setup.
resizeValid(cfg) ==
    \/ falsyString(cfg.resize)
    \/ /\ Len(cfg.resize) <= 2
       /\ all(cfg.resize, isXY)
       /\ Has(cfg, "resizeCursorClass") /\ cfg.resizeCursorClass # ""
       /\ positive(cfg, "resizePointCornerSize")
       /\ positive(cfg, "resizePointEdgeSize")

\* The argument of the assertion on the drag setup.
dragValid(cfg) ==
    \/ falsyString(cfg.drag)
    \/ /\ Len(cfg.drag) <= 2
       /\ all(cfg.drag, isXY)

\* The configuration after each assignment of the constructor.
resizeLowered(cfg) == [cfg EXCEPT !.resize = optLowerCase(@)]

dragLowered(cfg) == [resizeLowered(cfg) EXCEPT !.drag = optLowerCase(@)]

\* thresholdSet replacing only thresholds that are unset or not positive.
thresholdSetKeepsPositive(cfg) ==
    IF ~Has(cfg, "draggingThreshold") \/ dragLowered(cfg).draggingThreshold <= 0
    THEN Put(dragLowered(cfg), "draggingThreshold", ConfigDefaults.draggingThreshold)
    ELSE dragLowered(cfg)

thresholdSet(cfg) ==
    IF ~Has(cfg, "draggingThreshold") \/ dragLowered(cfg).draggingThreshold <= 10
    THEN Put(dragLowered(cfg), "draggingThreshold", ConfigDefaults.draggingThreshold)
    ELSE dragLowered(cfg)

\* The first assertion on the container that fails, "none" when all hold.
missingElementWithTitle(els) ==
    IF "windowElem" \notin els THEN "No window"
    ELSE IF "titlebar" \notin els THEN "No titlebar"
    ELSE IF "titlebarText" \notin els THEN "No titlebar text"
    ELSE IF "titlebarClose" \notin els THEN "No titlebar close"
    ELSE IF "content" \notin els THEN "No content"
    ELSE "none"

missingElement(els) ==
    IF "windowElem" \notin els THEN "No window"
    ELSE IF "titlebar" \notin els THEN "No titlebar"
    ELSE IF "titlebarClose" \notin els THEN "No titlebar close"
    ELSE IF "content" \notin els THEN "No content"
    ELSE "none"

\* The error the constructor raises, "none" when it returns.  A write to a
\* frozen object raises a TypeError in class code, which is strict.
constructorError(cfg, fr, els) ==
    IF fr THEN "TypeError"
    ELSE IF ~resizeValid(resizeLowered(cfg)) THEN "invalid resize setup"
    ELSE IF ~dragValid(dragLowered(cfg)) THEN "invalid drag setup"
    ELSE missingElement(els)

\* The configuration object when the constructor returns or raises.
constructorConfig(cfg, fr) ==
    IF fr THEN cfg
    ELSE IF ~resizeValid(resizeLowered(cfg)) THEN resizeLowered(cfg)
    ELSE IF ~dragValid(dragLowered(cfg)) THEN dragLowered(cfg)
    ELSE thresholdSet(cfg)

\* The listeners are added after the last assertion.
listenersAddedEarly(err) ==
    IF err \in {"none", "No titlebar close", "No content"} THEN WindowEvents ELSE {}

listenersAdded(err) == IF err = "none" THEN WindowEvents ELSE {}

\* The constructor run on a container holding els, with the configuration
\* object _config.
new(els) ==
    LET err == constructorError(_config, frozen, els)
    IN  /\ thrown' = err
        /\ _config' = constructorConfig(_config, frozen)
        /\ window' = IF err \in {"none", "No titlebar", "No titlebar close", "No content"}
                     THEN "windowElem" ELSE window
        /\ _state' = IF err = "none" THEN [_state EXCEPT !["instance"] = "null"]
                     ELSE _state
        /\ _cursorHoverState' = IF err = "none" THEN "null" ELSE _cursorHoverState
        /\ winListeners' = listenersAdded(err)
        /\ docListeners' = {<<"mouseup", "_onMouseUp">> : e \in listenersAdded(err)}
        /\ cursor' = NoPoint
        /\ flags' = NoFlags
        /\ result' = NoResult
        /\ UNCHANGED <<windowRect, titleRect, classList, frozen>>

Construct ==
    /\ op = "none"
    /\ op' = "constructor"
    /\ target' = "none"
    /\ new(elems)
    /\ UNCHANGED <<elems, attached>>

(***************************************************************************)
(* FakeWindow.Create(config, parentElem)                                   *)
(***************************************************************************)
Parents == {"parentElem", "document.body"}

\* The container FakeWindow.Create makes: an empty div.
CreatedElems == {"windowElem"}

Create(parentElem) ==
    /\ op = "none"
    /\ op' = "Create"
    /\ target' = parentElem
    /\ IF ~Has(_config, "windowClass")
       THEN /\ thrown' = "TypeError"
            /\ cursor' = NoPoint
            /\ flags' = NoFlags
            /\ result' = NoResult
            /\ UNCHANGED <<windowRect, titleRect, _config, window, attached, _state,
                           _cursorHoverState, classList, docListeners, dom>>
       ELSE /\ elems' = CreatedElems
            /\ attached' = TRUE
            /\ new(CreatedElems)

(***************************************************************************)
(* Construction on its own: Init draws the container and the configuration *)
(* object of one call, Construct and CreateWindow make the call.           *)
(***************************************************************************)
MaxSpecLen == 3      \* axis specifiers have at most MaxSpecLen characters

SpecChars == {"x", "Y", "z"}

SpecStrings == {Undefined} \cup UNION {[1..n -> SpecChars] : n \in 0..MaxSpecLen}

\* Configurations with the given axis specifiers and every setting of the
\* properties the resize assertion reads.
ResizeConfigs(resizes, drags) ==
    {Omit(cfg, unset) :
        cfg \in [resize : resizes, drag : drags,
                 windowClass : {ConfigDefaults.windowClass},
                 resizeCursorClass : {"", ConfigDefaults.resizeCursorClass},
                 resizePointCornerSize : {0, 1},
                 resizePointEdgeSize : {0, 1}],
        unset \in SUBSET {"resizeCursorClass", "resizePointCornerSize",
                          "resizePointEdgeSize"}}

\* The defaults with every setting of the properties the constructor
\* does not validate.
OptionConfigs ==
    {Omit(cfg, unset) :
        cfg \in {[[ConfigDefaults EXCEPT !.draggingThreshold = t] EXCEPT
                        !.resizeMinWidth = w] :
                    t \in {5, 10, 20}, w \in {100, 200}},
        unset \in SUBSET {"draggingThreshold", "resizeMinWidth", "resizeMinHeight",
                          "windowClass"}}

NotConstructed ==
    /\ Geometry({MaxOrigin}, {EventSize})
    /\ window = "undefined"
    /\ attached = ("windowElem" \in elems)
    /\ _state = [o \in {"instance", "windowElem", "document"} |-> "undefined"]
    /\ _cursorHoverState = "undefined"
    /\ classList = {}
    /\ docListeners = {}
    /\ winListeners = {}
    /\ op = "none"
    /\ target = "none"
    /\ cursor = NoPoint
    /\ flags = NoFlags
    /\ result = NoResult
    /\ thrown = "none"

InitConstruct ==
    \* the defaults themselves (frozen) or their shallow clone, the default
    \* argument of the constructor
    /\ \/ /\ elems \in SUBSET AllElems
          /\ _config = ConfigDefaults
       \/ /\ elems = AllElems
          /\ _config \in ResizeConfigs(SpecStrings, AxisSpecs)
                            \cup ResizeConfigs(AxisSpecs, SpecStrings)
                            \cup OptionConfigs
    /\ frozen \in BOOLEAN
    /\ NotConstructed

CreateWindow == \E parentElem \in Parents : Create(parentElem)

NextConstruct == Construct \/ CreateWindow

SpecConstruct == InitConstruct /\ [][NextConstruct]_vars

(***************************************************************************)
(* Properties of the classifier (checked under SpecClassify)               *)
(***************************************************************************)
\* The call of getWindowCursorState has returned.
Returned == op = "getWindowCursorState" /\ thrown = "none"

AllChecks == flags.checkEdgesX /\ flags.checkEdgesY /\ flags.checkCorners

\* p is strictly outside rect.
Outside(rect, p) ==
    \/ p.x < rect.x
    \/ p.x > rect.x + rect.width
    \/ p.y < rect.y
    \/ p.y > rect.y + rect.height

\* The corner coordinates of the window rectangle.
CornerPoint(k) ==
    CASE k = "nw" -> [x |-> windowRect.x, y |-> windowRect.y]
      [] k = "ne" -> [x |-> windowRect.x + windowRect.width, y |-> windowRect.y]
      [] k = "se" -> [x |-> windowRect.x + windowRect.width,
                      y |-> windowRect.y + windowRect.height]
      [] k = "sw" -> [x |-> windowRect.x, y |-> windowRect.y + windowRect.height]

\* C1: no result of getWindowCursorState has both a corner and an edge.
C1_CornerEdgeExclusive ==
    Returned => (result.corner = "null" \/ result.edge = "null")

\* C2: for a point strictly outside the window rectangle and outside the
\* title-bar rectangle, whatever the rectangle's size, the result is no corner,
\* no edge and inDragZone = false.
C2_OutsideHitsNothing ==
    (Returned /\ Outside(windowRect, cursor) /\ Outside(titleRect, cursor))
        => result = [corner |-> "null", edge |-> "null", inDragZone |-> FALSE]

\* C3 as stated: with all checks enabled, for any rectangle, a cursor at one
\* of the rectangle's corner coordinates is classified as that corner, with a
\* null edge.
C3_CornerPointAnyRect ==
    (Returned /\ AllChecks)
        => \A k \in CornerTags :
              cursor = CornerPoint(k) => (result.corner = k /\ result.edge = "null")

\* C3 as amended: the same, for rectangles wider and higher than the corner
\* size.
C3_CornerPoint ==
    (/\ Returned
     /\ AllChecks
     /\ windowRect.width > _config.resizePointCornerSize
     /\ windowRect.height > _config.resizePointCornerSize)
        => \A k \in CornerTags :
              cursor = CornerPoint(k) => (result.corner = k /\ result.edge = "null")

C3_Witness ==
    /\ Returned
    /\ AllChecks
    /\ windowRect.width > _config.resizePointCornerSize
    /\ windowRect.height > _config.resizePointCornerSize
    /\ cursor = CornerPoint("sw")
    /\ result.corner = "sw"
    /\ result.edge = "null"

\* The strips of C4, in coordinates: the rows of the top and bottom strips, the
\* two boundary columns of the span [rectX + c, rectX + W - c] and the columns
\* one pixel beyond it, and the strips of the other edges.
OnTopRows(p) ==
    p.y >= windowRect.y /\ p.y <= windowRect.y + _config.resizePointEdgeSize

OnBottomRows(p) ==
    /\ p.y >= windowRect.y + windowRect.height - _config.resizePointEdgeSize
    /\ p.y <= windowRect.y + windowRect.height

SpanBoundary ==
    {windowRect.x + _config.resizePointCornerSize,
     windowRect.x + windowRect.width - _config.resizePointCornerSize}

SpanBeyond ==
    {windowRect.x + _config.resizePointCornerSize - 1,
     windowRect.x + windowRect.width - _config.resizePointCornerSize + 1}

InSideRows(p) ==
    /\ p.y >= windowRect.y + _config.resizePointCornerSize
    /\ p.y <= windowRect.y + windowRect.height - _config.resizePointCornerSize

InLeftStrip(p) ==
    /\ InSideRows(p)
    /\ p.x >= windowRect.x
    /\ p.x <= windowRect.x + _config.resizePointEdgeSize

InRightStrip(p) ==
    /\ InSideRows(p)
    /\ p.x >= windowRect.x + windowRect.width - _config.resizePointEdgeSize
    /\ p.x <= windowRect.x + windowRect.width

InTopStrip(p) ==
    /\ OnTopRows(p)
    /\ p.x >= windowRect.x + _config.resizePointCornerSize
    /\ p.x <= windowRect.x + windowRect.width - _config.resizePointCornerSize

\* C4 as stated: with the N/S edges checked, a point on the top (bottom) strip
\* at either boundary column of [rectX + c, rectX + W - c] is reported as edge
\* n (s), and a point one pixel beyond either boundary is not.
C4_EdgeSpanAnyRect ==
    (Returned /\ flags.checkEdgesY)
        => /\ (OnTopRows(cursor) /\ cursor.x \in SpanBoundary) => result.edge = "n"
           /\ (OnBottomRows(cursor) /\ cursor.x \in SpanBoundary) => result.edge = "s"
           /\ (OnTopRows(cursor) /\ cursor.x \in SpanBeyond) => result.edge # "n"
           /\ (OnBottomRows(cursor) /\ cursor.x \in SpanBeyond) => result.edge # "s"

\* C4 as amended: the same for a window at least 2c wide and a point that lies
\* in no edge strip tested before the one in question (w before n; w, n and e
\* before s).
C4_EdgeSpan ==
    (/\ Returned
     /\ flags.checkEdgesY
     /\ windowRect.width >= 2 * _config.resizePointCornerSize)
        => /\ (/\ OnTopRows(cursor)
               /\ cursor.x \in SpanBoundary
               /\ ~InLeftStrip(cursor)) => result.edge = "n"
           /\ (/\ OnBottomRows(cursor)
               /\ cursor.x \in SpanBoundary
               /\ ~InLeftStrip(cursor)
               /\ ~InTopStrip(cursor)
               /\ ~InRightStrip(cursor)) => result.edge = "s"
           /\ (OnTopRows(cursor) /\ cursor.x \in SpanBeyond) => result.edge # "n"
           /\ (OnBottomRows(cursor) /\ cursor.x \in SpanBeyond) => result.edge # "s"

C4_Witness ==
    /\ Returned
    /\ AllChecks
    /\ windowRect.width > 2 * _config.resizePointCornerSize
    /\ OnBottomRows(cursor)
    /\ cursor.x = windowRect.x + windowRect.width - _config.resizePointCornerSize
    /\ ~InLeftStrip(cursor)
    /\ ~InTopStrip(cursor)
    /\ ~InRightStrip(cursor)
    /\ result.edge = "s"

(***************************************************************************)
(* Properties of the listeners and of close() (checked under Spec)         *)
(***************************************************************************)
InTitle(p) == includes(titleRect, p)

DragEnabled ==
    optIncludes(_config.drag, "x") = "true" \/ optIncludes(_config.drag, "y") = "true"

\* C5: a mousedown inside the title-bar zone followed by a mouseup, on the
\* window or elsewhere, leaves the instance Idle with no hover cursor class on
\* the window element.
C5_DownUpLeavesNoHover ==
    [][(op = "mousedown" /\ InTitle(cursor) /\ op' = "mouseup")
          => (_state'["instance"] = "null" /\ classList' = {})]_vars

\* C7: when the instance is Idle and dragging is enabled for an axis, a
\* mousedown inside the title-bar rectangle makes the state Dragging ("move").
C7_TitleDownStartsDrag ==
    [][(/\ _state["instance"] = "null"
        /\ DragEnabled
        /\ op' = "mousedown"
        /\ InTitle(cursor'))
          => _state'["instance"] = "move"]_vars

\* C8: after close() on an open instance the container is detached and the
\* document-level mouseup listener of the instance is no longer registered.
C8_CloseReleasesListener ==
    (op = "close" /\ thrown # "closed")
        => (~attached /\ <<"mouseup", "_onMouseUp">> \notin docListeners)

\* close() has been invoked: nothing else detaches the window element.
CloseInvoked == ~attached

\* C9: once close() has been invoked, the instance stays closed, and every
\* later call of close() or getWindowCursorState(), the call made by the
\* mousemove listener included, raises the closed-instance error and changes
\* no state.
C9_ClosedStaysClosed ==
    [][CloseInvoked
          => /\ window' = "null"
             /\ (\/ op' \in {"close", "getWindowCursorState"}
                 \/ (op' = "mousemove" /\ target' \notin LimitButtons))
                   => /\ thrown' = "closed"
                      /\ UNCHANGED <<windowRect, titleRect, _config, window, attached,
                                     _state, _cursorHoverState, classList,
                                     docListeners>>]_vars

C9_Witness ==
    /\ CloseInvoked
    /\ window = "null"
    /\ op = "getWindowCursorState"
    /\ thrown = "closed"

\* C10: a click on the close button closes the instance, whatever the
\* interaction state.
C10_ClickCloses ==
    (op = "click" /\ target = "titlebarClose") => window = "null"

(***************************************************************************)
(* Properties of construction (checked under SpecConstruct)                *)
(***************************************************************************)
\* No listener of the instance is registered anywhere.
NoListeners == winListeners = {} /\ docListeners = {}

\* C11: constructing on a container that has no close button raises an
\* error and registers no listener, neither on the container nor on the
\* document.
C11_NoCloseNoListeners ==
    (op \in {"constructor", "Create"} /\ "titlebarClose" \notin elems)
        => (thrown # "none" /\ NoListeners)

C11_Witness ==
    /\ op = "constructor"
    /\ elems = AllElems \ {"titlebarClose"}
    /\ thrown = "No titlebar close"
    /\ NoListeners

\* An axis specifier that enables its feature.
Enabled(str) == str # Undefined /\ str # <<>>

\* An enabled specifier the documentation allows: at most two letters, each
\* an x or a y in either case.
BadSpecifier(str) ==
    /\ Enabled(str)
    /\ \/ Len(str) > 2
       \/ \E i \in 1..Len(str) : str[i] \notin {"x", "y", "X", "Y"}

ClassMissing(cfg) == ~Has(cfg, "resizeCursorClass") \/ cfg.resizeCursorClass = ""

NotPositive(cfg, f) == ~Has(cfg, f) \/ cfg[f] <= 0

InvalidConfig(cfg) ==
    \/ BadSpecifier(cfg.resize)
    \/ BadSpecifier(cfg.drag)
    \/ /\ Enabled(cfg.resize)
       /\ \/ NotPositive(cfg, "resizePointCornerSize")
          \/ NotPositive(cfg, "resizePointEdgeSize")
          \/ ClassMissing(cfg)

\* The constructor is run on a valid configuration object it can write to.
ValidCall == op' = "constructor" /\ ~InvalidConfig(_config) /\ ~frozen

LowerXY(str) ==
    Enabled(str) => (Len(str) <= 2 /\ \A i \in 1..Len(str) : str[i] \in {"x", "y"})

\* C13: the constructor rejects a configuration whose resize or drag
\* specifier is enabled and longer than two characters or holds a character
\* other than x and y in either case, and one that enables resize with a
\* corner size or edge size not above zero or without a cursor class; after
\* a successful construction each enabled specifier is in lower case over
\* x and y and has at most two characters.
C13_ConfigValidated ==
    [][op' = "constructor"
          => /\ InvalidConfig(_config) => thrown' # "none"
             /\ thrown' = "none" => (LowerXY(_config'.resize) /\ LowerXY(_config'.drag))]_vars

\* A specifier written with a capital letter has been accepted: "y" before
\* "x" is drawn as "Y" only.
C13_Witness ==
    /\ op = "constructor"
    /\ thrown = "none"
    /\ _config.resize = <<"y", "x">>

\* C14: a successful construction with resizeMinWidth and resizeMinHeight
\* unset leaves resizeMinWidth = 100 and resizeMinHeight = 50 in the
\* resolved configuration.
C14_MinSizeDefaults ==
    [][(op' = "constructor" /\ thrown' = "none")
          => /\ ~Has(_config, "resizeMinWidth")
                  => (Has(_config', "resizeMinWidth") /\ _config'.resizeMinWidth = 100)
             /\ ~Has(_config, "resizeMinHeight")
                  => (Has(_config', "resizeMinHeight") /\ _config'.resizeMinHeight = 50)]_vars

\* C15: FakeWindow.Create, with the default or any valid configuration and
\* with or without a parent, attaches a new container and returns an open,
\* normally constructed instance without raising.
C15_CreateSucceeds ==
    [][(op' = "Create" /\ ~InvalidConfig(_config))
          => /\ thrown' = "none"
             /\ window' = "windowElem"
             /\ attached'
             /\ winListeners' = WindowEvents]_vars

(***************************************************************************)
(* Properties of the hover cursor (checked under Spec)                     *)
(***************************************************************************)
\* C16: the window element carries at most one resize-cursor class, it
\* carries one exactly when the recorded hover state is not null, and the
\* class is then the recorded hover state.
C16_OneHoverClass ==
    /\ Cardinality(classList) <= 1
    /\ classList # {} <=> _cursorHoverState # "null"
    /\ _cursorHoverState # "null" => classList = {_cursorHoverState}

C16_Witness ==
    /\ op = "mousemove"
    /\ window = "windowElem"
    /\ _cursorHoverState = "se"
    /\ classList = {"se"}

\* The zones the mousemove listener has checked under the configuration.
ResizeHas(ch) ==
    _config.resize # Undefined /\ \E i \in 1..Len(_config.resize) : _config.resize[i] = ch

\* p lies in no zone that the configuration enables.
InNoZone(p) ==
    /\ ResizeHas("x") => ~(InLeftStrip(p) \/ InRightStrip(p))
    /\ ResizeHas("y") => \A k \in {"n", "s"} : ~includes(edges(k), p)
    /\ (ResizeHas("x") /\ ResizeHas("y")) => \A k \in CornerTags : ~includes(corners(k), p)

\* C17: when the pointer goes from a zone to a position in no zone, be it
\* inside the window, on a title-bar button or outside the window element,
\* the hover class is removed.
C17_LeavingZonesClearsHover ==
    [][(/\ window = "windowElem"
        /\ _cursorHoverState # "null"
        /\ \/ op' = "mousemove" /\ InNoZone(cursor')
           \/ op' = "mouseleave")
          => (classList' = {} /\ _cursorHoverState' = "null")]_vars

\* C18: the mousemove listener checks the W/E edges only if resize contains
\* x, the N/S edges only if it contains y and the corners only if it
\* contains both; when resize is unset or empty no class is ever added.
C18_ChecksFollowResize ==
    (op = "mousemove" /\ target \notin LimitButtons)
        => /\ flags.checkEdgesX => ResizeHas("x")
           /\ flags.checkEdgesY => ResizeHas("y")
           /\ flags.checkCorners => (ResizeHas("x") /\ ResizeHas("y"))
           /\ ~Enabled(_config.resize) => classList = {}

\* C19: a mousemove event delivered a second time changes neither the
\* interaction state, nor the hover state, nor the class list.
C19_MoveIdempotent ==
    [][(op = "mousemove" /\ op' = "mousemove" /\ cursor' = cursor /\ target' = target)
          => UNCHANGED <<_state, _cursorHoverState, classList>>]_vars

C19_Witness ==
    /\ op = "mousemove"
    /\ target = "windowElem"
    /\ thrown = "none"
    /\ _cursorHoverState = "w"
    /\ cursor = [x |-> windowRect.x, y |-> windowRect.y + 2]

\* The classification written over the rectangles, the point, the two sizes
\* and the three flags alone.
Within(p, x, y, width, height) ==
    p.x >= x /\ p.x <= x + width /\ p.y >= y /\ p.y <= y + height

RefCorner(r, p, c, checkCorners) ==
    IF ~checkCorners THEN "null"
    ELSE IF Within(p, r.x, r.y, c, c) THEN "nw"
    ELSE IF Within(p, r.x + r.width - c, r.y, c, c) THEN "ne"
    ELSE IF Within(p, r.x + r.width - c, r.y + r.height - c, c, c) THEN "se"
    ELSE IF Within(p, r.x, r.y + r.height - c, c, c) THEN "sw"
    ELSE "null"

RefEdge(r, p, c, e, checkEdgesX, checkEdgesY) ==
    IF checkEdgesX /\ Within(p, r.x, r.y + c, e, r.height - 2 * c) THEN "w"
    ELSE IF checkEdgesY /\ Within(p, r.x + c, r.y, r.width - 2 * c, e) THEN "n"
    ELSE IF checkEdgesX /\ Within(p, r.x + r.width - e, r.y + c, e, r.height - 2 * c)
    THEN "e"
    ELSE IF checkEdgesY /\ Within(p, r.x + c, r.y + r.height - e, r.width - 2 * c, e)
    THEN "s"
    ELSE "null"

RefState(r, t, p, c, e, f) ==
    [corner |-> RefCorner(r, p, c, f.checkCorners),
     edge |-> RefEdge(r, p, c, e, f.checkEdgesX, f.checkEdgesY),
     inDragZone |-> Within(p, t.x, t.y, t.width, t.height)]

\* C20: getWindowCursorState on an open instance changes no state, and its
\* result is a function of the window rectangle, the title-bar rectangle,
\* the point, the corner and edge sizes and the three flags; inDragZone is a
\* function of the title-bar rectangle and the point.
C20_PureClassifier ==
    [][(op' = "getWindowCursorState" /\ window # "null")
          => /\ thrown' = "none"
             /\ result' = RefState(windowRect, titleRect, cursor',
                                   _config.resizePointCornerSize,
                                   _config.resizePointEdgeSize, flags')
             /\ UNCHANGED <<windowRect, titleRect, _config, window, attached,
                            _state, _cursorHoverState, classList, docListeners,
                            winListeners, elems, frozen>>]_vars

C20_Witness ==
    /\ Returned
    /\ _cursorHoverState = "s"
    /\ classList = {"s"}
    /\ result = [corner |-> "ne", edge |-> "null", inDragZone |-> TRUE]

\* C21: when the point of a mousemove lies in a corner zone, the class on
\* the window element is the class of that corner, also when the point lies
\* in an edge strip as well.
C21_CornerClassWins ==
    (/\ op = "mousemove"
     /\ target \notin LimitButtons
     /\ thrown = "none"
     /\ cornerLoop(cursor, flags.checkCorners) # "null")
        => /\ classList = {cornerLoop(cursor, flags.checkCorners)}
           /\ _cursorHoverState = cornerLoop(cursor, flags.checkCorners)

\* C24: close() raises an error exactly when the instance is closed already;
\* on an open instance it completes normally.
C24_CloseCompletes ==
    [][op' = "close" => (thrown' # "none" <=> window = "null")]_vars

\* C22: the constructor leaves the configuration object of the caller as it
\* was, and succeeds on a frozen one: with a valid configuration and every
\* required element present it returns, and the object is unchanged.
C22_ConfigUntouched ==
    [][(/\ op' = "constructor"
        /\ ~InvalidConfig(_config)
        /\ RequiredElems \subseteq elems)
          => (thrown' = "none" /\ _config' = _config)]_vars

part000_includes(rect, point) ==
    /\ point.x >= rect.x
    /\ point.x <= rect.x + rect.width
    /\ point.y <= rect.y
    /\ point.y >= rect.y + rect.height

InitIncludes ==
    /\ Geometry(0..MaxOrigin, 0..MaxSize)
    /\ cursor \in NearPoints
    /\ _config = ConfigDefaults
    /\ frozen = TRUE
    /\ elems = {}
    /\ window = "undefined"
    /\ attached = FALSE
    /\ _state = [o \in {"instance", "windowElem", "document"} |-> "undefined"]
    /\ _cursorHoverState = "undefined"
    /\ classList = {}
    /\ docListeners = {}
    /\ winListeners = {}
    /\ op = "none"
    /\ target = "none"
    /\ flags = NoFlags
    /\ result = FALSE
    /\ thrown = "none"

IncludesCall ==
    /\ op = "none"
    /\ op' = "includes"
    /\ result' = part000_includes(windowRect, cursor)
    /\ UNCHANGED <<windowRect, titleRect, _config, window, attached, _state,
                   _cursorHoverState, classList, docListeners, dom,
                   cursor, target, flags, thrown>>

NextIncludes == IncludesCall

SpecIncludes == InitIncludes /\ [][NextIncludes]_vars

\* C23: in the version of src/unnamed/part_000, includes(rect, point) holds
\* exactly when point.x is in [rect.x, rect.x + rect.width] and point.y is
\* in [rect.y, rect.y + rect.height], both bounds included, for every
\* rectangle of non-negative width and height.
C23_Part000Inclusive ==
    op = "includes"
        => (result = TRUE
              <=> /\ cursor.x \in windowRect.x..(windowRect.x + windowRect.width)
                  /\ cursor.y \in windowRect.y..(windowRect.y + windowRect.height))

====
